---- MODULE Spec2Model ----
(***************************************************************************)
(* tools/convert_imageset_multilabels.cpp: main() from the manifest read   *)
(* (line 74) to return 0 (line 227), for a command line with at least the  *)
(* four positional arguments (argc >= 5) and a build with USE_OPENCV.      *)
(*                                                                         *)
(* Strings are sequences of one-character strings, so that rfind, substr,  *)
(* tolower and the key concatenation are computed as the code computes     *)
(* them.  A store on disk is the sequence of the transactions committed to *)
(* it, each the sequence of its puts <<key, datum>>.                       *)
(***************************************************************************)
EXTENDS Integers, Sequences, FiniteSets, TLC

VARIABLES
  manifest,               \* the rows of LISTFILE (argv[2]), as read by getline
  files,                  \* the images under ROOTFOLDER, by relative path
  FLAGS,                  \* gflags: shuffle, check_size, encoded, encode_type
  argv,                   \* argv[3] (DB_NAME) and argv[4] (DB_LABEL)
  disk,                   \* the stores that exist, by path
  lines,                  \* std::vector<pair<string,int>> lines
  labels,                 \* std::vector<pair<int,int>> labels
  pc,                     \* position of main
  line_id,                \* loop index of the running pass
  count,                  \* int count
  data_size,              \* int data_size
  data_size_initialized,  \* bool data_size_initialized
  txn,                    \* scoped_ptr<db::Transaction> txn
  txn_label,              \* scoped_ptr<db::Transaction> txn_label
  oob,                    \* an element of an empty vector has been read
  fatal                   \* why the process aborted ("" while it has not)

vars == <<manifest, files, FLAGS, argv, disk, lines, labels, pc, line_id, count,
          data_size, data_size_initialized, txn, txn_label, oob, fatal>>

----------------------------------------------------------------------------
(* Bounds of the model *)

\* manifests of up to MaxSmallRows rows are enumerated exhaustively
MaxSmallRows == 2
\* long manifests have BatchSize + MaxTail rows or MaxBatches * BatchSize + 1 rows
MaxBatches == 2
MaxTail == 2

----------------------------------------------------------------------------
(* Program constants *)

\* if (++count % 1000 == 0), if (count % 1000 != 0)
BatchSize == 1000
\* caffe::format_int(line_id, 8)
KeyDigits == 8
\* sizeof(int) of label_data[]
IntBytes == 4
\* datum_label.set_data(label_data, 2)
LabelDataLen == 2

----------------------------------------------------------------------------
(* Strings *)

Digit(d) == CASE d = 0 -> "0" [] d = 1 -> "1" [] d = 2 -> "2" [] d = 3 -> "3"
              [] d = 4 -> "4" [] d = 5 -> "5" [] d = 6 -> "6" [] d = 7 -> "7"
              [] d = 8 -> "8" [] d = 9 -> "9"

RECURSIVE Decimal(_)
\* operator<<(ostream&, int) for n >= 0
Decimal(n) == IF n < 10 THEN <<Digit(n)>>
              ELSE Append(Decimal(n \div 10), Digit(n % 10))

RECURSIVE Zeros(_)
Zeros(k) == IF k <= 0 THEN <<>> ELSE <<"0">> \o Zeros(k - 1)

\* caffe::format_int(n, w): setw(w), setfill('0'); never truncates
format_int(n, w) == Zeros(w - Len(Decimal(n))) \o Decimal(n)

\* ::tolower on the characters that occur in the paths of the model
ToLowerChar(c) == CASE c = "P" -> "p" [] c = "A" -> "a" [] c = "B" -> "b"
                    [] OTHER -> c

ToLower(s) == [i \in 1..Len(s) |-> ToLowerChar(s[i])]

npos == -1

\* std::string::rfind('.') as a 0-based position, npos when there is none
rfind(s, c) == IF \E i \in 1..Len(s) : s[i] = c
               THEN (CHOOSE i \in 1..Len(s) :
                       s[i] = c /\ \A j \in (i+1)..Len(s) : s[j] # c) - 1
               ELSE npos

\* std::string::substr(p) throws std::out_of_range when p > size(); npos is
\* the largest size_t
SubstrThrows(s, p) == p = npos \/ p > Len(s)

substr(s, p) == SubSeq(s, p + 1, Len(s))

----------------------------------------------------------------------------
(* Manifest rows: lines 79-89 *)

\* std::getline(ss, field, ' ') leaves the field empty when the line has ended;
\* atoi of an empty field is 0.  A row of the model holds the path and the
\* values atoi gives for the label fields that are present.
atoi(row, k) == IF Len(row) >= k THEN row[k] ELSE 0

fileloc(row) == row[1]

\* labels.push_back(make_pair(atoi(label_1), atoi(label_2)*4 + atoi(label_3)))
LabelPair(row) == <<atoi(row, 2), atoi(row, 3) * 4 + atoi(row, 4)>>

ParsedLines(m) == [i \in 1..Len(m) |-> <<fileloc(m[i]), 0>>]

ParsedLabels(m) == [i \in 1..Len(m) |-> LabelPair(m[i])]

----------------------------------------------------------------------------
(* Inputs of the model *)

PathA == <<"a", ".", "P">>
PathB == <<"b">>
Paths == {PathA, PathB}

RowKinds == { <<PathA, 1, 0, 0>>, <<PathA, 2, 1, 3>>, <<PathB, 1>>, <<PathB, 2, 1, 3>> }

Missing == [present |-> FALSE, channels |-> 0, height |-> 0, width |-> 0, bytes |-> 0]
Image(c, h, w, b) == [present |-> TRUE, channels |-> c, height |-> h, width |-> w, bytes |-> b]
\* an image of 1x1x1 pixels in a file of 2 bytes, one of 1x2x1 pixels in a file of 1 byte
FileKinds == { Missing, Image(1, 1, 1, 2), Image(1, 2, 1, 1) }

EncodeTypes == { <<>>, <<"p">> }

DbP == "payload_db"
DbL == "label_db"

SmallManifests == UNION { [1..n -> RowKinds] : n \in 0..MaxSmallRows }

LongCounts == { BatchSize + MaxTail, MaxBatches * BatchSize + 1 }

\* a long manifest: the same row throughout, and a last row with a path of its own
LongManifest(n) == [i \in 1..n |-> IF i = n THEN <<PathA, 2, 1, 3>> ELSE <<PathB, 1>>]

----------------------------------------------------------------------------
(* The collaborators of main that live outside this file *)

Bytes(n, b) == [i \in 1..n |-> b]

Datum(c, h, w, d, l, e) ==
  [channels |-> c, height |-> h, width |-> w, data |-> d, label |-> l, encoded |-> e]

\* bool ReadImageToDatum(filename, label, height, width, is_color, encoding, datum):
\* false when the file cannot be read or decoded
ReadImageStatus(path) == files[path].present

\* the datum it fills in on success: the decoded pixels (channels*height*width
\* bytes) without an encoding, the bytes of the file with one
ReadImageDatum(path, label, enc) ==
  LET f == files[path] IN
  IF enc = <<>>
  THEN Datum(f.channels, f.height, f.width,
             Bytes(f.channels * f.height * f.width, 0), label, FALSE)
  ELSE Datum(f.channels, f.height, f.width, Bytes(f.bytes, 1), label, TRUE)

\* db->Open(source, db::NEW) fails (CHECK) when source exists
OpenFails(source) == source \in DOMAIN disk

\* a fresh store at source
Created(source) == [p \in DOMAIN disk \cup {source} |->
                      IF p = source THEN <<>> ELSE disk[p]]

\* db->NewTransaction(): a transaction with no puts; id counts the transactions
\* opened on the store
NewTransaction(id) == [id |-> id, puts |-> <<>>, committed |-> FALSE]

NoTransaction == [id |-> 0, puts |-> <<>>, committed |-> FALSE]

\* txn->Put(key, value)
Put(t, key, value) == [t EXCEPT !.puts = Append(@, <<key, value>>)]

\* txn->Commit(): the puts of t become durable in the store at source, as a unit
Committed(source, t) == [disk EXCEPT ![source] = Append(@, t.puts)]

----------------------------------------------------------------------------
(* Pieces of the two loops *)

\* a payload store opened at the path given for the label store
PayloadDbSwapped == argv.db_label

\* db->Open(argv[3], db::NEW)
PayloadDb == argv.db_name

\* db_label->Open(argv[4], db::NEW)
LabelDb == argv.db_label

\* a loop that leaves out the last row
LoopRunsOffByOne(id) == id < Len(lines) - 1

\* line_id < lines.size(), of both loops
LoopRuns(id) == id < Len(lines)

\* a shuffle that reads the flag next to its own
ShuffleWantedByEncoded == FLAGS.encoded

\* if (FLAGS_shuffle)
ShuffleWanted == FLAGS.shuffle

\* a key that numbers the records written, not the rows
key_strByCount(id) == format_int(count, KeyDigits) \o <<"_">> \o lines[id + 1][1]

\* a key that is the path alone
key_strPathOnly(id) == lines[id + 1][1]

\* line 148 and line 202
key_str(id) == format_int(id, KeyDigits) \o <<"_">> \o lines[id + 1][1]

\* lines 123-132: the encoding handed to ReadImageToDatum
GuessNeeded == FLAGS.encoded /\ FLAGS.encode_type = <<>>

GuessThrows(fn) == GuessNeeded /\ SubstrThrows(fn, rfind(fn, "."))

Enc(fn) == IF GuessNeeded THEN ToLower(substr(fn, rfind(fn, "."))) ELSE FLAGS.encode_type

\* a check that never fires
SizeCheckFailsNever(d) == FALSE

\* lines 137-146 and 191-200: CHECK_EQ(data.size(), data_size) fails
SizeCheckFails(d) ==
  FLAGS.check_size /\ data_size_initialized /\ Len(d.data) # data_size

\* data_size after the check
SizeAfter(d) ==
  IF FLAGS.check_size /\ ~data_size_initialized
  THEN d.channels * d.height * d.width
  ELSE data_size

InitializedAfter == FLAGS.check_size \/ data_size_initialized

\* a loop that writes the row whatever ReadImageToDatum returned
SkippedNever(status) == FALSE

\* if (status == false) continue;
Skipped(status) == status = FALSE

\* a loop that commits after every put
CommitDueEveryPut(c) == TRUE

\* if (++count % 1000 == 0)
CommitDue(c) == c % BatchSize = 0

\* a last commit that is issued whatever count is
LastBatchDueAlways(c) == TRUE

\* a last batch that is never written
LastBatchDueNever(c) == FALSE

\* if (count % 1000 != 0)
LastBatchDue(c) == c % BatchSize # 0

\* the n low bytes of v in two's complement, lowest first (\div rounds down, so
\* a negative v extends its sign)
RECURSIVE LittleEndian(_, _)
LittleEndian(v, n) == IF n = 0 THEN <<>>
                      ELSE <<v % 256>> \o LittleEndian(v \div 256, n - 1)

\* an int in the memory of a little-endian machine
IntInMemory(v) == LittleEndian(v, IntBytes)

\* int label_data[] = {labels[line_id].first, labels[line_id].second}
label_data(pair) == IntInMemory(pair[1]) \o IntInMemory(pair[2])

\* a label record that holds the whole of label_data
datum_labelWhole(pair) == Datum(2, 1, 1, label_data(pair), 0, FALSE)

\* lines 183-188: set_data(const void*, size_t) copies that many bytes
datum_label(pair) == Datum(2, 1, 1, SubSeq(label_data(pair), 1, LabelDataLen), 0, FALSE)

----------------------------------------------------------------------------
(* The program *)

TypicalFiles == [p \in Paths |-> Image(1, 1, 1, 2)]

SmallInput ==
  /\ manifest \in SmallManifests
  /\ files \in [Paths -> FileKinds]
  /\ FLAGS \in [shuffle : BOOLEAN, check_size : BOOLEAN, encoded : BOOLEAN,
                encode_type : EncodeTypes]
  /\ \/ /\ argv = [db_name |-> DbP, db_label |-> DbL]
        /\ disk \in { [p \in S |-> <<>>] : S \in { {}, {DbP}, {DbL} } }
     \/ /\ argv = [db_name |-> DbP, db_label |-> DbP]
        /\ disk = << >>

LongInput ==
  /\ manifest \in { LongManifest(n) : n \in LongCounts }
  /\ files \in { [TypicalFiles EXCEPT ![PathA] = f] : f \in {Missing, Image(1, 2, 1, 1)} }
  /\ FLAGS \in [shuffle : {FALSE}, check_size : BOOLEAN, encoded : {FALSE},
                encode_type : {<<>>}]
  /\ argv = [db_name |-> DbP, db_label |-> DbL]
  /\ disk = << >>

Init ==
  /\ SmallInput \/ LongInput
  /\ lines = <<>>
  /\ labels = <<>>
  /\ pc = "parse"
  /\ line_id = 0
  /\ count = 0
  /\ data_size = 0
  /\ data_size_initialized = FALSE
  /\ txn = NoTransaction
  /\ txn_label = NoTransaction
  /\ oob = FALSE
  /\ fatal = ""

inputs == <<manifest, files, FLAGS, argv>>

\* lines 74-89
ParseManifest ==
  /\ pc = "parse"
  /\ lines' = ParsedLines(manifest)
  /\ labels' = ParsedLabels(manifest)
  /\ pc' = "debug"
  /\ UNCHANGED <<inputs, disk, line_id, count, data_size, data_size_initialized,
                 txn, txn_label, oob, fatal>>

\* lines 92-93: lines[0] and labels[0] are read whatever lines.size() is; on an
\* empty vector the read is undefined: the process dies or goes on
DebugLog ==
  /\ pc = "debug"
  /\ oob' = (Len(lines) = 0 \/ Len(labels) = 0)
  /\ \/ /\ pc' = "shuffle"
        /\ fatal' = fatal
     \/ /\ oob'
        /\ pc' = "aborted"
        /\ fatal' = "segv"
  /\ UNCHANGED <<inputs, disk, lines, labels, line_id, count, data_size,
                 data_size_initialized, txn, txn_label>>

RECURSIVE Orders(_)
Orders(s) ==
  IF Len(s) = 0 THEN { <<>> }
  ELSE UNION { { <<s[i]>> \o t :
                   t \in Orders([j \in 1..(Len(s) - 1) |->
                                         IF j < i THEN s[j] ELSE s[j + 1]]) } :
               i \in 1..Len(s) }

\* shuffle(lines.begin(), lines.end()): any order of the elements of lines
ShuffleOutcomes(s) == Orders(s)

\* lines 95-100: labels is not shuffled
Shuffle ==
  /\ pc = "shuffle"
  /\ IF ShuffleWanted THEN lines' \in ShuffleOutcomes(lines) ELSE lines' = lines
  /\ pc' = "open_db"
  /\ UNCHANGED <<inputs, disk, labels, line_id, count, data_size,
                 data_size_initialized, txn, txn_label, oob, fatal>>

\* lines 110-119
OpenDb ==
  /\ pc = "open_db"
  /\ IF OpenFails(PayloadDb)
     THEN /\ pc' = "aborted"
          /\ fatal' = "open"
          /\ UNCHANGED <<disk, txn, line_id, count, data_size, data_size_initialized>>
     ELSE /\ disk' = Created(PayloadDb)
          /\ txn' = NewTransaction(1)
          /\ count' = 0
          /\ data_size' = 0
          /\ data_size_initialized' = FALSE
          /\ line_id' = 0
          /\ pc' = "payload"
          /\ fatal' = fatal
  /\ UNCHANGED <<inputs, lines, labels, txn_label, oob>>

\* lines 121-161: one iteration of the payload loop
PayloadRow ==
  /\ pc = "payload"
  /\ LoopRuns(line_id)
  /\ LET fn == lines[line_id + 1][1]
         datum == ReadImageDatum(fn, lines[line_id + 1][2], Enc(fn))
     IN
     IF GuessThrows(fn)
     THEN \* enc = fn.substr(p) throws; nothing catches it
          /\ pc' = "aborted"
          /\ fatal' = "out_of_range"
          /\ UNCHANGED <<disk, line_id, count, data_size, data_size_initialized, txn>>
     ELSE IF Skipped(ReadImageStatus(fn))
     THEN \* continue;
          /\ line_id' = line_id + 1
          /\ UNCHANGED <<disk, pc, fatal, count, data_size, data_size_initialized, txn>>
     ELSE IF SizeCheckFails(datum)
     THEN /\ pc' = "aborted"
          /\ fatal' = "size"
          /\ UNCHANGED <<disk, line_id, count, data_size, data_size_initialized, txn>>
     ELSE /\ data_size' = SizeAfter(datum)
          /\ data_size_initialized' = InitializedAfter
          /\ count' = count + 1
          /\ IF CommitDue(count + 1)
             THEN /\ disk' = Committed(PayloadDb, Put(txn, key_str(line_id), datum))
                  /\ txn' = NewTransaction(txn.id + 1)
             ELSE /\ txn' = Put(txn, key_str(line_id), datum)
                  /\ disk' = disk
          /\ line_id' = line_id + 1
          /\ UNCHANGED <<pc, fatal>>
  /\ UNCHANGED <<inputs, lines, labels, txn_label, oob>>

\* lines 162-166: write the last batch
PayloadFinish ==
  /\ pc = "payload"
  /\ ~LoopRuns(line_id)
  /\ IF LastBatchDue(count)
     THEN /\ disk' = Committed(PayloadDb, txn)
          /\ txn' = [txn EXCEPT !.committed = TRUE]
     ELSE UNCHANGED <<disk, txn>>
  /\ pc' = "open_label"
  /\ UNCHANGED <<inputs, lines, labels, line_id, count, data_size,
                 data_size_initialized, txn_label, oob, fatal>>

\* lines 171-179
OpenLabelDb ==
  /\ pc = "open_label"
  /\ IF OpenFails(LabelDb)
     THEN /\ pc' = "aborted"
          /\ fatal' = "open"
          /\ UNCHANGED <<disk, txn_label, line_id, count, data_size,
                         data_size_initialized>>
     ELSE /\ disk' = Created(LabelDb)
          /\ txn_label' = NewTransaction(1)
          /\ count' = 0
          /\ data_size' = 0
          /\ data_size_initialized' = FALSE
          /\ line_id' = 0
          /\ pc' = "label"
          /\ fatal' = fatal
  /\ UNCHANGED <<inputs, lines, labels, txn, oob>>

\* lines 181-215: one iteration of the label loop
LabelRow ==
  /\ pc = "label"
  /\ LoopRuns(line_id)
  /\ LET datum == datum_label(labels[line_id + 1]) IN
     IF SizeCheckFails(datum)
     THEN /\ pc' = "aborted"
          /\ fatal' = "size"
          /\ UNCHANGED <<disk, line_id, count, data_size, data_size_initialized,
                         txn_label>>
     ELSE /\ data_size' = SizeAfter(datum)
          /\ data_size_initialized' = InitializedAfter
          /\ count' = count + 1
          /\ IF CommitDue(count + 1)
             THEN /\ disk' = Committed(LabelDb,
                                       Put(txn_label, key_str(line_id), datum))
                  /\ txn_label' = NewTransaction(txn_label.id + 1)
             ELSE /\ txn_label' = Put(txn_label, key_str(line_id), datum)
                  /\ disk' = disk
          /\ line_id' = line_id + 1
          /\ UNCHANGED <<pc, fatal>>
  /\ UNCHANGED <<inputs, lines, labels, txn, oob>>

\* lines 216-220 and 227: write the last batch, return 0
LabelFinish ==
  /\ pc = "label"
  /\ ~LoopRuns(line_id)
  /\ IF LastBatchDue(count)
     THEN /\ disk' = Committed(LabelDb, txn_label)
          /\ txn_label' = [txn_label EXCEPT !.committed = TRUE]
     ELSE UNCHANGED <<disk, txn_label>>
  /\ pc' = "done"
  /\ UNCHANGED <<inputs, lines, labels, line_id, count, data_size,
                 data_size_initialized, txn, oob, fatal>>

Next ==
  \/ ParseManifest
  \/ DebugLog
  \/ Shuffle
  \/ OpenDb
  \/ PayloadRow
  \/ PayloadFinish
  \/ OpenLabelDb
  \/ LabelRow
  \/ LabelFinish

Spec == Init /\ [][Next]_vars

----------------------------------------------------------------------------
(* What the claims speak of *)

Range(s) == { s[i] : i \in DOMAIN s }

\* the puts that are durable in the store at path
Durable(path) == UNION { Range(disk[path][b]) : b \in DOMAIN disk[path] }

\* the sizes of the commits the store at path received, in order
CommitSizes(path) == [b \in DOMAIN disk[path] |-> Len(disk[path][b])]

Keys(puts) == { p[1] : p \in puts }

\* the path and the row index a key holds
KeyPath(k) == SubSeq(k, KeyDigits + 2, Len(k))
KeyIndex(k) == SubSeq(k, 1, KeyDigits)

Rows == 0..(Len(lines) - 1)

\* the rows whose file ReadImageToDatum can read
ReadableRows == { i \in Rows : files[lines[i + 1][1]].present }

\* the put of row i in the payload pass and in the label pass
PayloadPutOf(i) ==
  LET fn == lines[i + 1][1]
  IN <<key_str(i), ReadImageDatum(fn, lines[i + 1][2], Enc(fn))>>

LabelPutOf(i) == <<key_str(i), datum_label(labels[i + 1])>>

\* the payload loop has been left at its end
PayloadPassOver == pc \in {"open_label", "label", "done"}

\* floor(n/1000) times 1000, then n mod 1000 when that is not 0
ExpectedSizes(n) ==
  [b \in 1..((n \div 1000) + (IF n % 1000 = 0 THEN 0 ELSE 1)) |->
     IF b <= n \div 1000 THEN 1000 ELSE n % 1000]

----------------------------------------------------------------------------
(* C1: after a completed run, for every row whose payload was stored, the   *)
(* payload entry and the label entry under the key of that row hold the     *)
(* same path and the label record of the labels that the manifest gives on  *)
(* a line of that path -- with and without shuffle.                         *)
C1_Alignment ==
  pc = "done" =>
    \A p \in Durable(PayloadDb) :
      \E l \in Durable(LabelDb) :
        /\ l[1] = p[1]
        /\ \E r \in DOMAIN manifest :
             /\ fileloc(manifest[r]) = KeyPath(p[1])
             /\ l[2] = datum_label(LabelPair(manifest[r]))

(* C2: after a completed run the label store and the payload store hold the *)
(* same keys.                                                               *)
C2_SameSampleSet ==
  pc = "done" => Keys(Durable(LabelDb)) = Keys(Durable(PayloadDb))

(* C3: no store ever receives a commit of zero puts; when the payload pass  *)
(* is over, and still when the run is, the payload store has received       *)
(* floor(N/1000) commits of 1000 puts and then one of N mod 1000 when that  *)
(* is not zero, N the number of rows that could be read (skipped rows do    *)
(* not count); when the run is over, so has the label store, N the number   *)
(* of rows.                                                                 *)
C3_BatchBoundaries ==
  /\ \A path \in DOMAIN disk : \A b \in DOMAIN disk[path] : Len(disk[path][b]) > 0
  /\ pc \in {"open_label", "done"} =>
       CommitSizes(PayloadDb) = ExpectedSizes(Cardinality(ReadableRows))
  /\ pc = "done" => CommitSizes(LabelDb) = ExpectedSizes(Len(lines))

\* the payload pass is over after a commit of 1000 puts and one of the rest,
\* a row having been skipped
C3_Witness ==
  /\ pc = "open_label"
  /\ Len(disk[PayloadDb]) = 2
  /\ Len(disk[PayloadDb][1]) = 1000
  /\ Len(disk[PayloadDb][2]) = Len(lines) - 1001
  /\ ReadableRows # Rows

(* C4: when the run has returned 0, every put issued to a store is durable  *)
(* in it -- the store holds the puts of the rows written, and as many       *)
(* entries as puts were counted -- and no transaction holds puts that are   *)
(* not committed.                                                           *)
C4_NoPutLost ==
  pc = "done" =>
    /\ Durable(PayloadDb) = { PayloadPutOf(i) : i \in ReadableRows }
    /\ Durable(LabelDb) = { LabelPutOf(i) : i \in Rows }
    /\ Cardinality(Durable(LabelDb)) = count
    /\ txn.puts = <<>> \/ txn.committed
    /\ txn_label.puts = <<>> \/ txn_label.committed

\* a completed run that has put to both stores and skipped a row
C4_Witness ==
  /\ pc = "done"
  /\ txn.committed /\ txn.puts # <<>>
  /\ txn_label.committed /\ Len(txn_label.puts) = 2
  /\ ReadableRows # Rows

row_fn == lines[line_id + 1][1]

\* ReadImageToDatum is called for the row at line_id and returns false
EncodeFails ==
  /\ pc = "payload"
  /\ line_id < Len(lines)
  /\ ~GuessThrows(row_fn)
  /\ ~files[row_fn].present

(* C5: a step of the payload loop whose encode fails issues no put, leaves  *)
(* count alone, does not abort and goes on to the next row; at the step     *)
(* that ends the payload pass, every row that can be read is in the store.  *)
C5_SkipSemantics ==
  [][/\ EncodeFails =>
          /\ txn' = txn
          /\ disk' = disk
          /\ count' = count
          /\ pc' = "payload"
          /\ fatal' = ""
          /\ line_id' = line_id + 1
     /\ (pc = "payload" /\ pc' = "open_label") =>
          (Keys(Durable(PayloadDb)) = { key_str(i) : i \in ReadableRows })'
    ]_vars

\* the payload pass is over, a row was skipped and a later row was put
C5_Witness ==
  /\ PayloadPassOver
  /\ \E i, j \in Rows :
       /\ i < j
       /\ i \notin ReadableRows
       /\ key_str(j) \in Keys(Durable(PayloadDb))

\* the record of the row at line_id in the running pass
row_datum ==
  IF pc = "payload"
  THEN ReadImageDatum(row_fn, lines[line_id + 1][2], Enc(row_fn))
  ELSE datum_label(labels[line_id + 1])

\* the row at line_id has a record, which is not the first written to the
\* store, and its data is not of the size recorded at the first
SizeMismatch ==
  /\ pc \in {"payload", "label"}
  /\ line_id < Len(lines)
  /\ pc = "payload" => ~GuessThrows(row_fn) /\ files[row_fn].present
  /\ data_size_initialized
  /\ Len(row_datum.data) # data_size

(* C6: with check_size, a step at a record whose data is not of the size    *)
(* recorded at the first record of the store aborts the run and issues no   *)
(* put, and no step follows an abort; without check_size no step aborts on  *)
(* a size, and at the step that ends the payload pass every row that can    *)
(* be read is stored, whatever its size.                                    *)
C6_SizeCheckFatal ==
  [][/\ FLAGS.check_size /\ SizeMismatch =>
          /\ pc' = "aborted"
          /\ fatal' = "size"
          /\ txn' = txn
          /\ txn_label' = txn_label
          /\ disk' = disk
     /\ pc # "aborted"
     /\ ~FLAGS.check_size =>
          /\ fatal' # "size"
          /\ (pc = "payload" /\ pc' = "open_label") =>
               (Durable(PayloadDb) = { PayloadPutOf(i) : i \in ReadableRows })'
    ]_vars

\* the run has aborted on the size of a record that was not the first
C6_Witness ==
  /\ pc = "aborted"
  /\ fatal = "size"
  /\ count >= 1
  /\ FLAGS.check_size

\* every put issued to the store of the running pass, durable or not
PassPuts ==
  IF txn_label.id > 0
  THEN Durable(LabelDb) \cup Range(txn_label.puts)
  ELSE IF txn.id > 0 THEN Durable(PayloadDb) \cup Range(txn.puts)
  ELSE {}

(* C7: with check_size, the data of every record put to a store is as long  *)
(* as the data of any other record put to it, and as long as the            *)
(* channels*height*width the record declares.                               *)
C7_SizeUniform ==
  FLAGS.check_size =>
    \A p \in PassPuts :
      /\ Len(p[2].data) = p[2].channels * p[2].height * p[2].width
      /\ \A q \in PassPuts : Len(q[2].data) = Len(p[2].data)

(* C8: when the run has aborted on a size in the payload pass, the payload  *)
(* store holds the first 1000*k puts of the pass, k the number of commits   *)
(* it received, and none of the puts of the open transaction.               *)
C8_DurablePrefix ==
  pc = "aborted" /\ fatal = "size" /\ txn_label.id = 0 =>
    LET k == Len(disk[PayloadDb])
        written == { i \in ReadableRows : i < line_id }
        first == { i \in written : Cardinality({ j \in written : j < i }) < 1000 * k }
    IN /\ Durable(PayloadDb) = { PayloadPutOf(i) : i \in first }
       /\ Cardinality(Durable(PayloadDb)) = 1000 * k
       /\ Range(txn.puts) = { PayloadPutOf(i) : i \in written \ first }
       /\ Range(txn.puts) \cap Durable(PayloadDb) = {}

\* an abort on a size after a commit, with a put in the open transaction
C8_Witness ==
  /\ pc = "aborted"
  /\ fatal = "size"
  /\ Len(disk[PayloadDb]) >= 1
  /\ txn.puts # <<>>

(* C9: when the open of a store has failed because its path exists (the     *)
(* payload path, the label path, or one path given for both), no put and    *)
(* no commit has been issued to any store.                                  *)
C9_OpenGuard ==
  pc = "aborted" /\ fatal = "open" =>
    /\ txn.puts = <<>>
    /\ txn_label.puts = <<>>
    /\ \A path \in DOMAIN disk : disk[path] = <<>>

(* C10: a run over a manifest of no rows reads no row that is not there,    *)
(* does not abort, and ends with both stores created and empty, no commit   *)
(* issued.                                                                  *)
C10_EmptyManifest ==
  manifest = <<>> =>
    /\ ~oob
    /\ fatal # "segv"
    /\ pc = "done" =>
         /\ disk[PayloadDb] = <<>> /\ disk[LabelDb] = <<>>
         /\ txn.puts = <<>> /\ txn_label.puts = <<>>

----------------------------------------------------------------------------
(* Keys and records as the specification words them *)

\* the d-th of the 8 digits of i
PaddedDigit(i, d) ==
  LET q == CASE d = 1 -> i \div 10000000 [] d = 2 -> i \div 1000000
             [] d = 3 -> i \div 100000 [] d = 4 -> i \div 10000
             [] d = 5 -> i \div 1000 [] d = 6 -> i \div 100
             [] d = 7 -> i \div 10 [] d = 8 -> i
  IN Digit(q % 10)

\* K(i) = zeroPad(i, 8) + "_" + relativePath
K(i, path) == [d \in 1..8 |-> PaddedDigit(i, d)] \o <<"_">> \o path

Last(s) == s[Len(s)]

\* the put a step has just issued through transaction t to the store at path
PutIssued(t, path) ==
  IF t.puts # <<>> /\ ~t.committed THEN Last(t.puts) ELSE Last(Last(disk[path]))

\* a step of the payload loop, or of the label loop, that issues a put
PayloadPutStep == pc = "payload" /\ pc' = "payload" /\ count' = count + 1
LabelPutStep == pc = "label" /\ pc' = "label" /\ count' = count + 1

(* C11: every put of the payload pass and of the label pass uses the key    *)
(* K(i) of the row position i it is at and of the path at that position of  *)
(* lines (the order after the shuffle); when the run is over, every key of  *)
(* the payload store is a key of the label store, and a row that was        *)
(* skipped has no key in the payload store while the rows after it keep     *)
(* their positions.                                                         *)
C11_KeyPolicy ==
  [][/\ PayloadPutStep =>
          PutIssued(txn, argv.db_name)'[1] = K(line_id, lines[line_id + 1][1])
     /\ LabelPutStep =>
          PutIssued(txn_label, argv.db_label)'[1] = K(line_id, lines[line_id + 1][1])
     /\ pc' = "done" =>
          /\ Keys(Durable(argv.db_name))' =
               { K(i, lines[i + 1][1]) : i \in ReadableRows }
          /\ Keys(Durable(argv.db_label))' = { K(i, lines[i + 1][1]) : i \in Rows }
    ]_vars

\* a completed run that skipped its first row and stored its second
C11_Witness ==
  /\ pc = "done"
  /\ Len(lines) = 2
  /\ ReadableRows = {1}
  /\ Keys(Durable(argv.db_name)) = { K(1, lines[2][1]) }

\* the records a run without shuffle issues to the payload store, in order,
\* from the manifest, the files and the flags alone: those of the readable
\* rows before the first row at which the guess of the encoding throws
ExpectedPayload ==
  LET reached == IF GuessNeeded
                 THEN Cardinality({ i \in 1..Len(manifest) :
                        \A j \in 1..i : ~GuessThrows(fileloc(manifest[j])) })
                 ELSE Len(manifest)
      idx == [i \in 1..reached |-> <<i - 1, fileloc(manifest[i])>>]
      Readable(x) == files[x[2]].present
      sel == SelectSeq(idx, Readable)
  IN [j \in 1..Len(sel) |->
        <<K(sel[j][1], sel[j][2]), ReadImageDatum(sel[j][2], 0, Enc(sel[j][2]))>>]

\* the records a run without shuffle issues to the label store, in order
ExpectedLabel ==
  [i \in 1..Len(manifest) |->
     <<K(i - 1, fileloc(manifest[i])), datum_label(LabelPair(manifest[i]))>>]

Min(a, b) == IF a < b THEN a ELSE b

\* a sequence of puts cut into commits of 1000 and a last shorter one
Chunks(s) ==
  [b \in 1..((Len(s) + BatchSize - 1) \div BatchSize) |->
     SubSeq(s, (b - 1) * BatchSize + 1, Min(b * BatchSize, Len(s)))]

\* the commits of the store at path are the first commits of expected
CommitsBegin(path, expected) ==
  /\ Len(disk[path]) <= Len(expected)
  /\ \A b \in DOMAIN disk[path] : disk[path][b] = expected[b]

(* C12: with shuffle disabled, the puts and the commits a run has issued    *)
(* when it ends are given by the manifest, the files and the options: a     *)
(* completed run leaves in each store exactly the commits, each with its    *)
(* puts in order, that its inputs give, and a run that aborted leaves the   *)
(* first of them; so two runs on the same inputs end with the same stores.  *)
C12_Deterministic ==
  (~FLAGS.shuffle /\ pc \in {"done", "aborted"}) =>
     /\ pc = "done" => /\ disk[argv.db_name] = Chunks(ExpectedPayload)
                       /\ disk[argv.db_label] = Chunks(ExpectedLabel)
     /\ txn.id > 0 => CommitsBegin(argv.db_name, Chunks(ExpectedPayload))
     /\ txn_label.id > 0 => CommitsBegin(argv.db_label, Chunks(ExpectedLabel))

\* a completed run without shuffle over two different rows, both stored
C12_Witness ==
  /\ pc = "done"
  /\ ~FLAGS.shuffle
  /\ Len(manifest) = 2
  /\ fileloc(manifest[1]) # fileloc(manifest[2])
  /\ Len(disk[argv.db_name]) = 1
  /\ Len(disk[argv.db_name][1]) = 2
  /\ Len(disk[argv.db_label][1]) = 2

(* C13: with pre-encoding, no encode type given and a path without '.', the *)
(* step of the payload loop at that row goes on to the next row (the row is *)
(* processed with an empty encode type) and the run does not end there.     *)
C13_NoExtensionProcessed ==
  [][(/\ pc = "payload"
      /\ LoopRuns(line_id)
      /\ GuessNeeded
      /\ rfind(row_fn, ".") = npos)
     => (pc' = "aborted" => fatal' = "size")
    ]_vars

\* the records put to the label store and not committed yet
LabelBuffer == IF txn_label.committed THEN {} ELSE Range(txn_label.puts)

\* the two 32-bit ints held in 8 bytes of data, least significant byte first
IntAt(data, k) ==
  LET b(j) == data[(k - 1) * 4 + j]
      u == b(1) + 256 * b(2) + 65536 * b(3) + 16777216 * (b(4) % 128)
  IN IF b(4) >= 128 THEN u - 2147483647 - 1 ELSE u

(* C14: every label record has channels = 2, height = 1, width = 1,         *)
(* label = 0 and data of exactly 8 bytes, from which the primary and the    *)
(* composite label of a row of the manifest are read back as two 32-bit     *)
(* ints.                                                                    *)
C14_LabelRecord ==
  \A put \in LabelBuffer :
     LET d == put[2] IN
     /\ d.channels = 2 /\ d.height = 1 /\ d.width = 1 /\ d.label = 0
     /\ Len(d.data) = 2 * IntBytes
     /\ \E i \in DOMAIN labels : <<IntAt(d.data, 1), IntAt(d.data, 2)>> = labels[i]

\* the store at path, opened by this run with transactions up to t, has
\* received one commit from every transaction before t and at most one from t
CommittedOnce(t, path) ==
  t.id > 0 => Len(disk[path]) = (t.id - 1) + (IF t.committed THEN 1 ELSE 0)

\* a step that puts a record through t to the store at path: into t, which is
\* not committed, or, at the threshold, into t which is then committed with
\* that record while a fresh transaction takes its place
PutThrough(t, path) ==
  /\ ~t.committed
  /\ \/ /\ t' = [t EXCEPT !.puts = Append(@, PutIssued(t, path)')]
        /\ disk'[path] = disk[path]
     \/ /\ Len(t.puts) + 1 = BatchSize
        /\ Len(disk'[path]) = Len(disk[path]) + 1
        /\ Len(Last(disk'[path])) = BatchSize
        /\ SubSeq(Last(disk'[path]), 1, Len(t.puts)) = t.puts
        /\ t' = [id |-> t.id + 1, puts |-> <<>>, committed |-> FALSE]

\* a pass ends with a count of 0 or a multiple of 1000: its last transaction
\* holds no put and is not committed
IdleAtEnd(t) == (count % BatchSize = 0) => (t'.puts = <<>> /\ ~t'.committed)

(* C15: each store has one transaction at a time, the earlier ones all      *)
(* committed once; every put goes into a transaction that is not committed; *)
(* a commit at the threshold is followed by a fresh transaction before the  *)
(* next put; a pass that ends with a count of 0 or of a multiple of 1000    *)
(* leaves its last transaction with no put and never commits it.            *)
C15_TransactionStates ==
  [][/\ CommittedOnce(txn, argv.db_name)'
     /\ CommittedOnce(txn_label, argv.db_label)'
     /\ PayloadPutStep => PutThrough(txn, argv.db_name)
     /\ LabelPutStep => PutThrough(txn_label, argv.db_label)
     /\ (pc = "payload" /\ pc' = "open_label") => IdleAtEnd(txn)
     /\ (pc = "label" /\ pc' = "done") => IdleAtEnd(txn_label)
     /\ pc \in {"open_label", "label"} => txn' = txn
    ]_vars

\* a put into the transaction that follows a commit at the threshold
C15_Witness ==
  /\ pc = "payload"
  /\ txn.id = 2
  /\ Len(txn.puts) = 1
  /\ ~txn.committed
  /\ Len(disk[argv.db_name]) = 1

\* the run has not left the payload pass
PayloadPhase == pc \in {"parse", "debug", "shuffle", "open_db", "payload"}

\* a step leaves the store at path as it is: neither created nor written
Untouched(path) ==
  /\ (path \in DOMAIN disk') <=> (path \in DOMAIN disk)
  /\ path \in DOMAIN disk => disk'[path] = disk[path]

(* C16: no step taken in the payload pass, the step that aborts it          *)
(* included, opens the label store, begins a transaction on it, puts or     *)
(* commits to it; the label store is opened only when the payload pass has  *)
(* issued its last commit; no step of the label pass touches the payload    *)
(* store or its transaction.                                                *)
C16_SequentialPasses ==
  [][/\ PayloadPhase =>
          /\ txn_label = NoTransaction /\ txn_label' = NoTransaction
          /\ argv.db_label # argv.db_name => Untouched(argv.db_label)
     /\ txn_label'.id > 0 =>
          /\ pc \in {"open_label", "label"}
          /\ txn'.puts = <<>> \/ txn'.committed
     /\ pc \in {"open_label", "label"} =>
          /\ txn' = txn
          /\ argv.db_label # argv.db_name => Untouched(argv.db_name)
    ]_vars

\* the label pass has put a record after the payload pass committed one
C16_Witness ==
  /\ pc = "label"
  /\ txn_label.puts # <<>>
  /\ txn.committed
  /\ Len(disk[argv.db_name]) = 1

RECURSIVE Flatten(_)
\* the puts of a sequence of commits, in the order they were issued
Flatten(commits) ==
  IF commits = <<>> THEN <<>>
  ELSE Flatten(SubSeq(commits, 1, Len(commits) - 1)) \o Last(commits)

(* C17: a completed run over N rows has issued exactly N puts to the label  *)
(* store, the j-th with the key of row index j - 1, whether or not the      *)
(* payload pass could encode the row.                                       *)
C17_OneLabelPerRow ==
  pc = "done" =>
     LET issued == Flatten(disk[argv.db_label]) IN
     /\ Len(issued) = Len(manifest)
     /\ \A j \in 1..Len(issued) : issued[j][1] = K(j - 1, lines[j][1])

\* a completed run over two rows, neither of which the payload pass could read
C17_Witness ==
  /\ pc = "done"
  /\ Len(manifest) = 2
  /\ ReadableRows = {}
  /\ disk[argv.db_name] = <<>>
  /\ Len(disk[argv.db_label][1]) = 2

(* C18: the label pass starts with count 0 and no size recorded, whatever   *)
(* the payload pass recorded; no step of the label pass aborts the run; and *)
(* with check_size each label record after the first has data of the size   *)
(* recorded at the first, which is its channels * height * width.            *)
C18_LabelSizeCheck ==
  [][/\ (pc = "open_label" /\ pc' = "label") =>
          count' = 0 /\ data_size' = 0 /\ ~data_size_initialized'
     /\ pc = "label" => pc' \in {"label", "done"} /\ fatal' = fatal
     /\ (LabelPutStep /\ data_size_initialized) =>
          LET d == PutIssued(txn_label, argv.db_label)'[2] IN
          /\ Len(d.data) = data_size
          /\ data_size = d.channels * d.height * d.width
    ]_vars

\* with check_size, two label records written after a payload pass that
\* recorded another size
C18_Witness ==
  /\ pc = "label"
  /\ FLAGS.check_size
  /\ count = 2
  /\ data_size_initialized
  /\ \E put \in Durable(argv.db_name) : Len(put[2].data) # data_size

RECURSIVE PutsIssued(_)
\* the number of puts in a sequence of commits
PutsIssued(commits) ==
  IF commits = <<>> THEN 0
  ELSE PutsIssued(SubSeq(commits, 1, Len(commits) - 1)) + Len(Last(commits))

\* the entries of the store at path are as many as the puts it received
AllKeysDiffer(path) ==
  Cardinality(Keys(Durable(path))) = PutsIssued(disk[path])

(* C19: at the end of a pass the keys in its store are as many as the puts  *)
(* the pass issued, so no two puts of a pass use the same key, two rows of  *)
(* the same path included.                                                  *)
C19_KeysUnique ==
  /\ pc = "open_label" => AllKeysDiffer(argv.db_name)
  /\ pc = "done" => AllKeysDiffer(argv.db_name) /\ AllKeysDiffer(argv.db_label)

\* a completed run over two rows of the same path, both stored in both stores
C19_Witness ==
  /\ pc = "done"
  /\ Len(lines) = 2
  /\ lines[1][1] = lines[2][1]
  /\ Cardinality(Keys(Durable(argv.db_name))) = 2
  /\ Cardinality(Keys(Durable(argv.db_label))) = 2

====
